---- MODULE Spec2Model ----
(***************************************************************************)
(* Model of databallpy's Metrica event data parser                         *)
(* (data_parsers/event_data_parsers/metrica_event_data_parser.py) and of   *)
(* the DribbleEvent constructor (events/dribble_event.py).                 *)
(*                                                                         *)
(* Real numbers (coordinates) are kept in fixed point: a real r is the     *)
(* integer r * Scale, Scale == 2 * Den, which is exact for the vendor      *)
(* values k / Den and for value * dimension - dimension / 2.0 with whole   *)
(* pitch dimensions.                                                       *)
(***************************************************************************)
EXTENDS Integers, Sequences, FiniteSets, TLC

VARIABLES
    event_data_loc,            \* argument of load_metrica_event_data
    metadata_loc,              \* argument of load_metrica_event_data
    pc,                        \* position in load_metrica_event_data
    raised,                    \* the exception that ended the call, or "none"
    metadata,                  \* the Metadata object
    events,                    \* events_dict["data"], the decoded record stream
    result_dict,               \* the 18 column lists of _get_event_data
    check_outcome_last_event,  \* the look-ahead flag of _get_event_data
    event_data,                \* the DataFrame
    metrica_map,               \* the module-level dict metrica_databallpy_map
    shot_events,               \* event_id -> ShotEvent
    pass_events,               \* event_id -> PassEvent
    dribble_events,            \* event_id -> DribbleEvent
    ctor_args,                 \* arguments of a direct DribbleEvent(...) call
    ctor_result                \* what that call produced

vars == <<event_data_loc, metadata_loc, pc, raised, metadata, events, result_dict,
          check_outcome_last_event, event_data, metrica_map, shot_events, pass_events,
          dribble_events, ctor_args, ctor_result>>

(***************************************************************************)
(* Bounds                                                                  *)
(***************************************************************************)
\* longest record stream
MaxLen == 3
\* vendor coordinates are k / Den, k in 0 .. Den
Den == 2

Scale == 2 * Den

(***************************************************************************)
(* Program constants                                                       *)
(***************************************************************************)
\* databallpy.utils.constants.MISSING_INT, imported by the parser
MISSING_INT == -999

\* the literal the module-level dict metrica_databallpy_map is bound to
metrica_databallpy_map == [pass |-> "pass", carry |-> "dribble", shot |-> "shot"]

in_possession_events == <<"pass", "carry", "recovery", "shot">>

out_of_possession_events == <<"fault received", "ball out", "ball lost">>

\* the keys of result_dict, in the order of the dict literal
Columns == <<"event_id", "type_id", "databallpy_event", "period_id", "minutes",
             "seconds", "player_id", "player_name", "team_id", "outcome",
             "start_x", "start_y", "to_player_id", "to_player_name", "end_x",
             "end_y", "td_frame", "metrica_event">>

\* the characters of each key, for the substring tests "_x" in col, "_y" in col
Spelling ==
    [event_id |-> <<"e","v","e","n","t","_","i","d">>,
     type_id |-> <<"t","y","p","e","_","i","d">>,
     databallpy_event |-> <<"d","a","t","a","b","a","l","l","p","y","_","e","v","e","n","t">>,
     period_id |-> <<"p","e","r","i","o","d","_","i","d">>,
     minutes |-> <<"m","i","n","u","t","e","s">>,
     seconds |-> <<"s","e","c","o","n","d","s">>,
     player_id |-> <<"p","l","a","y","e","r","_","i","d">>,
     player_name |-> <<"p","l","a","y","e","r","_","n","a","m","e">>,
     team_id |-> <<"t","e","a","m","_","i","d">>,
     outcome |-> <<"o","u","t","c","o","m","e">>,
     start_x |-> <<"s","t","a","r","t","_","x">>,
     start_y |-> <<"s","t","a","r","t","_","y">>,
     to_player_id |-> <<"t","o","_","p","l","a","y","e","r","_","i","d">>,
     to_player_name |-> <<"t","o","_","p","l","a","y","e","r","_","n","a","m","e">>,
     end_x |-> <<"e","n","d","_","x">>,
     end_y |-> <<"e","n","d","_","y">>,
     td_frame |-> <<"t","d","_","f","r","a","m","e">>,
     metrica_event |-> <<"m","e","t","r","i","c","a","_","e","v","e","n","t">>]

(***************************************************************************)
(* Python values and built-ins                                             *)
(***************************************************************************)
\* None, for the nullable string columns
None == "None"

Range(s) == {s[n] : n \in 1..Len(s)}

\* sub in s, for strings given as character sequences
Contains(sub, s) ==
    \E n \in 0..(Len(s) - Len(sub)) : \A m \in 1..Len(sub) : s[n + m] = sub[m]

\* str.lower() on the vendor's event names
PyLower(s) ==
    CASE s = "PASS" -> "pass"
      [] s = "CARRY" -> "carry"
      [] s = "Carry" -> "carry"
      [] s = "SHOT" -> "shot"
      [] s = "Shot" -> "shot"
      [] s = "RECOVERY" -> "recovery"
      [] s = "BALL LOST" -> "ball lost"
      [] s = "BALL OUT" -> "ball out"
      [] s = "FAULT RECEIVED" -> "fault received"
      [] s = "CHALLENGE" -> "challenge"
      [] s = "SET PIECE" -> "set piece"
      [] OTHER -> s

DigitVal(c) ==
    CASE c = "0" -> 0 [] c = "1" -> 1 [] c = "2" -> 2 [] c = "3" -> 3 [] c = "4" -> 4
      [] c = "5" -> 5 [] c = "6" -> 6 [] c = "7" -> 7 [] c = "8" -> 8 [] c = "9" -> 9

RECURSIVE DecimalVal(_)
DecimalVal(s) ==
    IF s = <<>> THEN 0 ELSE 10 * DecimalVal(SubSeq(s, 1, Len(s) - 1)) + DigitVal(s[Len(s)])

\* databallpy.utils.utils._to_int on an int or on a string of digits
to_int_str(s) == IF s # <<>> /\ \A n \in 1..Len(s) : s[n] \in {"0","1","2","3","4","5","6","7","8","9"}
                 THEN DecimalVal(s) ELSE MISSING_INT

to_int(n) == n

\* databallpy.utils.utils._to_float on a number
to_float(x) == x

\* typed Python values, for the arguments of a constructor
PyInt(n) == [t |-> "int", i |-> n, s |-> "", b |-> FALSE]
PyStr(x) == [t |-> "str", i |-> 0, s |-> x, b |-> FALSE]
PyBoolVal(x) == [t |-> "bool", i |-> 0, s |-> "", b |-> x]
PyFloat(n) == [t |-> "float", i |-> n, s |-> "", b |-> FALSE]
PyNone == [t |-> "NoneType", i |-> 0, s |-> "", b |-> FALSE]

\* isinstance(v, classes): bool is a subclass of int
IsInstance(v, classes) ==
    \/ v.t \in classes
    \/ v.t = "bool" /\ "int" \in classes

\* bool(n) of an integer
PyBool(n) == n # 0

(***************************************************************************)
(* Inputs: the vendor's records                                            *)
(***************************************************************************)
\* event["subtypes"] of a shot: a list of sub-types or a single sub-type object
ShotSubtypes ==
    {[isList |-> TRUE, names |-> <<"ON TARGET", "GOAL">>],
     [isList |-> TRUE, names |-> <<"OFF TARGET">>],
     [isList |-> FALSE, names |-> <<"GOAL">>],
     [isList |-> FALSE, names |-> <<"ON TARGET">>]}

\* event["subtypes"] of the other records
NoSubtypes == [isList |-> TRUE, names |-> <<>>]

TeamIds == {"FIFATMA", "FIFATMB"}

\* what varies between the records of a stream
Choices ==
    {[name |-> n, team |-> t, subtypes |-> NoSubtypes] :
        n \in {"PASS", "Carry", "BALL LOST", "CHALLENGE"}, t \in TeamIds}
    \cup {[name |-> "SHOT", team |-> t, subtypes |-> s] : t \in TeamIds, s \in ShotSubtypes}

TypeId(name) ==
    CASE name = "PASS" -> 1 [] name = "SHOT" -> 2
      [] name = "BALL LOST" -> 5 [] name = "CHALLENGE" -> 9 [] OTHER -> 10

\* the vendor's coordinate k / Den, in fixed point
Unit(k) == (k % (Den + 1)) * 2

\* the k-th record of a stream: a JSON object of events_dict["data"]
MkEvent(k, c, sx, sy, ex, ey) ==
    [index |-> k,
     type |-> [id |-> TypeId(c.name), name |-> c.name],
     period |-> 1,
     start |-> [time |-> 45 * k, x |-> sx, y |-> sy, frame |-> 1125 * k + 10],
     end |-> [x |-> ex, y |-> ey],
     from |-> IF c.team = "FIFATMA"
              THEN [id |-> <<"P", "1", "0">>, name |-> "Player 10"]
              ELSE [id |-> <<"P", "2", "2">>, name |-> "Player 22"],
     to |-> IF c.name = "PASS"
            THEN [null |-> FALSE, id |-> <<"P", "7">>, name |-> "Player 7"]
            ELSE [null |-> TRUE, id |-> <<>>, name |-> None],
     team |-> [id |-> c.team],
     subtypes |-> c.subtypes]

\* the record stream of the choices cs, coordinates fixed by the position
Stream(cs) ==
    [k \in 1..Len(cs) |-> MkEvent(k, cs[k], Unit(k), Unit(k + 1), Unit(k + 2), Unit(2 * k))]

(***************************************************************************)
(* _get_event_data                                                         *)
(***************************************************************************)
EmptyResultDict == [c \in Range(Columns) |-> <<>>]

App(rd, col, v) == [rd EXCEPT ![col] = Append(@, v)]

SetLast(seq, v) == [seq EXCEPT ![Len(seq)] = v]

\* seq[-1]
Last(seq) == seq[Len(seq)]

\* ShotOutcome looking at the first sub-type of a list only
ShotOutcomeFirstOnly(subtypes) == IF subtypes.names[1] = "GOAL" THEN 1 ELSE 0

\* lines 216-225: the outcome of a shot from its sub-types
ShotOutcome(subtypes) ==
    IF subtypes.isList
    THEN IF \E n \in 1..Len(subtypes.names) : subtypes.names[n] = "GOAL" THEN 1 ELSE 0
    ELSE IF subtypes.names[1] = "GOAL" THEN 1 ELSE 0

\* LostPossession without the comparison of the teams in its second case
LostPossessionAnyTeam(event_name, last_team_id, team_id) ==
    \/ event_name \in Range(out_of_possession_events) /\ last_team_id = team_id
    \/ event_name \in Range(in_possession_events)

\* lines 203-209: the next record shows the pending pass or carry lost the ball
LostPossession(event_name, last_team_id, team_id) ==
    \/ event_name \in Range(out_of_possession_events) /\ last_team_id = team_id
    \/ event_name \in Range(in_possession_events) /\ last_team_id # team_id

\* ResolveOutcome that does not look at the flag
ResolveOutcomeAlways(rd, flag, event_name, event) ==
    IF rd.outcome # <<>>
    THEN IF LostPossession(event_name, Last(rd.team_id), event.team.id)
         THEN SetLast(rd.outcome, 0)
         ELSE SetLast(rd.outcome, 1)
    ELSE rd.outcome

\* lines 202-213: the outcome column after resolving the pending record
ResolveOutcome(rd, flag, event_name, event) ==
    IF flag
    THEN IF LostPossession(event_name, Last(rd.team_id), event.team.id)
         THEN SetLast(rd.outcome, 0)
         ELSE SetLast(rd.outcome, 1)
    ELSE rd.outcome

\* NeedsLookAhead that forgets the carry
NeedsLookAheadPassOnly(event_name) == event_name = "pass"

\* lines 231-232: the flag after a record
NeedsLookAhead(event_name) == event_name \in {"pass", "carry"}

\* lines 191-245: one iteration of the loop, on result_dict and the flag
ProcessEvent(rd, flag, event) ==
    LET event_name == PyLower(event.type.name)
        rd1 == App(App(App(App(App(App(App(App(rd,
                 "event_id", event.index),
                 "type_id", event.type.id),
                 "metrica_event", event_name),
                 "period_id", event.period),
                 "minutes", to_int(event.start.time \div 60)),
                 "seconds", to_float(event.start.time % 60)),
                 "player_id", to_int_str(Tail(event.from.id))),
                 "player_name", event.from.name)
        rd2 == [rd1 EXCEPT !.outcome = ResolveOutcome(rd1, flag, event_name, event)]
        rd3 == App(rd2, "outcome",
                   IF event_name = "shot" THEN ShotOutcome(event.subtypes) ELSE MISSING_INT)
        rd4 == App(App(App(rd3,
                 "team_id", event.team.id),
                 "start_x", to_float(event.start.x)),
                 "start_y", to_float(event.start.y))
        rd5 == IF ~event.to.null
               THEN App(App(rd4, "to_player_id", to_int_str(Tail(event.to.id))),
                        "to_player_name", event.to.name)
               ELSE App(App(rd4, "to_player_id", MISSING_INT), "to_player_name", None)
        rd6 == App(App(App(rd5,
                 "end_x", to_float(event.end.x)),
                 "end_y", to_float(event.end.y)),
                 "td_frame", event.start.frame)
    IN  [rd |-> rd6, flag |-> NeedsLookAhead(event_name)]

\* MapEvent keeping the vendor's name of a mapped event
MapEventKeepName(table, name) == IF name \in DOMAIN table THEN name ELSE None

\* Series.map(metrica_databallpy_map).replace([np.nan], [None]) on one name
MapEvent(table, name) == IF name \in DOMAIN table THEN table[name] ELSE None

\* lines 247-252: the DataFrame of the column lists
ToDataFrame(rd, table) ==
    [rd EXCEPT !.databallpy_event =
        [n \in 1..Len(rd.event_id) |-> MapEvent(table, rd.metrica_event[n])]]

RECURSIVE ParseFrom(_, _, _)
ParseFrom(st, stream, k) ==
    IF k > Len(stream) THEN st
    ELSE ParseFrom(ProcessEvent(st.rd, st.flag, stream[k]), stream, k + 1)

\* _get_event_data on a whole stream
GetEventData(stream, table) ==
    ToDataFrame(ParseFrom([rd |-> EmptyResultDict, flag |-> FALSE], stream, 1).rd, table)

(***************************************************************************)
(* load_metrica_event_data: the checks of its arguments                    *)
(***************************************************************************)
StrLoc(chars) == [t |-> "str", chars |-> chars]
NoneLoc == [t |-> "NoneType", chars |-> <<>>]

\* the paths that exist: the event data file and the metadata file
Files == {<<"e">>, <<"x">>}

EventDataLocs == {StrLoc(<<"e">>), StrLoc(<<"m">>), StrLoc(<<"{", "}">>), NoneLoc}

MetadataLocs == {StrLoc(<<"x">>), StrLoc(<<"m">>), NoneLoc}

\* os.path.exists: os.stat raises TypeError for None
os_path_exists(loc) ==
    CASE loc.t = "str" -> IF loc.chars \in Files THEN "True" ELSE "False"
      [] OTHER -> "TypeError"

\* lines 52-73: "ok", or the exception raised
CheckLocs(e, m) ==
    IF e.t = "str" /\ ~Contains(<<"{">>, e.chars)
    THEN IF os_path_exists(e) # "True" THEN "FileNotFoundError"
         ELSE CASE os_path_exists(m) = "TypeError" -> "TypeError"
                [] os_path_exists(m) = "False" -> "FileNotFoundError"
                [] OTHER -> "ok"
    ELSE IF e.t = "str" /\ Contains(<<"{">>, e.chars)
         THEN "ok"
         ELSE "TypeError"

(***************************************************************************)
(* Metadata (databallpy.data_parsers.metrica_metadata_parser)              *)
(***************************************************************************)
NoMetadata ==
    [loaded |-> FALSE, pitch_dimensions |-> <<0, 0>>, home_team_id |-> None,
     away_team_id |-> None, frame_rate |-> 0, periods_frames |-> <<>>]

\* the Metadata of a match on a pitch of the given whole dimensions
MetadataOf(length, width) ==
    [loaded |-> TRUE, pitch_dimensions |-> <<length, width>>,
     home_team_id |-> "FIFATMA", away_team_id |-> "FIFATMB", frame_rate |-> 25,
     periods_frames |-> <<[period_id |-> 1, start_frame |-> 10, start_datetime_ed |-> 0],
                          [period_id |-> 2, start_frame |-> 70000,
                           start_datetime_ed |-> 3600000]>>]

\* _get_metadata, _get_td_channels, _update_metadata: the metadata of the match
\* when metadata_loc is the file, an error otherwise
get_metadata(m) ==
    IF m.t = "str" /\ m.chars \in Files
    THEN MetadataOf(106, 68)
    ELSE NoMetadata

(***************************************************************************)
(* load_metrica_event_data: rescaling and datetime                         *)
(***************************************************************************)
\* RescaleValue without the shift to the centre of the pitch
RescaleValueNoShift(v, dim) == v * dim

\* lines 86-89: value * dimension - dimension / 2.0, in fixed point
RescaleValue(v, dim) == v * dim - (Scale * dim) \div 2

\* lines 85-94: one of the two loops over the columns whose name holds sub
RescaleCols(ed, sub, dim) ==
    [c \in DOMAIN ed |->
        IF Contains(sub, Spelling[c])
        THEN [n \in 1..Len(ed[c]) |-> RescaleValue(ed[c][n], dim)]
        ELSE ed[c]]

Rescaled(ed, md) ==
    RescaleCols(RescaleCols(ed, <<"_", "x">>, md.pitch_dimensions[1]),
                <<"_", "y">>, md.pitch_dimensions[2])

\* .loc[periods_frames["period_id"] == 1, col].iloc[0]
FirstPeriod(md) ==
    md.periods_frames[CHOOSE n \in 1..Len(md.periods_frames) :
        /\ md.periods_frames[n].period_id = 1
        /\ \A m \in 1..(n - 1) : md.periods_frames[m].period_id # 1]

\* lines 97-112: the datetime column, in milliseconds since the epoch
WithDatetime(ed, md) ==
    [c \in DOMAIN ed \cup {"datetime"} |->
        IF c = "datetime"
        THEN [n \in 1..Len(ed.td_frame) |->
                FirstPeriod(md).start_datetime_ed
                + ((ed.td_frame[n] - FirstPeriod(md).start_frame) * 1000) \div md.frame_rate]
        ELSE ed[c]]

\* _normalize_playing_direction_events: the coordinates mirrored, or not
Mirrored(ed, flip) ==
    [c \in DOMAIN ed |->
        IF flip /\ c \in {"start_x", "start_y", "end_x", "end_y"}
        THEN [n \in 1..Len(ed[c]) |-> 0 - ed[c][n]]
        ELSE ed[c]]

(***************************************************************************)
(* DribbleEvent (events/dribble_event.py)                                  *)
(***************************************************************************)
\* lines 105-120: "none", or the exception raised
check_datatypes(a) ==
    CASE ~IsInstance(a.player_id, {"int", "np.integer", "str"}) -> "TypeError"
      [] ~IsInstance(a.related_event_id, {"int", "np.integer"}) -> "TypeError"
      [] ~IsInstance(a.duel_type, {"str", "NoneType"}) -> "TypeError"
      [] ~IsInstance(a.outcome, {"bool", "NoneType"}) -> "TypeError"
      [] OTHER -> "none"

\* lines 53-56: DribbleEvent(**base, **a); the base fields are valid
DribbleEvent(base, a) ==
    IF check_datatypes(a) = "none"
    THEN [state |-> "object", base |-> base, fields |-> a]
    ELSE [state |-> check_datatypes(a), base |-> base, fields |-> a]

(***************************************************************************)
(* _get_databallpy_events                                                  *)
(***************************************************************************)
\* a row of the DataFrame
Row(ed, n) == [c \in DOMAIN ed |-> ed[c][n]]

\* the keyword arguments the three builders share
BaseFields(row, pitch_dimensions, home_team_id) ==
    [event_id |-> row.event_id,
     period_id |-> row.period_id,
     minutes |-> row.minutes,
     seconds |-> row.seconds,
     datetime |-> row.datetime,
     start_x |-> row.start_x,
     start_y |-> row.start_y,
     team_id |-> row.team_id,
     pitch_size |-> pitch_dimensions,
     team_side |-> IF row.team_id = home_team_id THEN "home" ELSE "away",
     xt |-> -1]

\* list[k] of Python: [raises |-> TRUE] is IndexError
PyIndex(list, k) ==
    IF 0 <= k /\ k < Len(list) THEN [raises |-> FALSE, v |-> list[k + 1]]
    ELSE IF k < 0 /\ 0 - k <= Len(list) THEN [raises |-> FALSE, v |-> list[Len(list) + k + 1]]
    ELSE [raises |-> TRUE, v |-> None]

\* pd.isnull of a value of the integer outcome column
pd_isnull(v) == v \notin Int

\* lines 327-348
get_shot_event(row, pitch_dimensions, home_team_id) ==
    LET o == PyIndex(<<"miss", "goal">>, row.outcome)
    IN  [raises |-> o.raises,
         base |-> BaseFields(row, pitch_dimensions, home_team_id),
         player_id |-> row.player_id,
         shot_outcome |-> o.v,
         related_event_id |-> MISSING_INT]

\* lines 378-380
PassOutcome(outcome) ==
    IF ~pd_isnull(outcome)
    THEN PyIndex(<<"unsuccessful", "successful">>, outcome)
    ELSE [raises |-> FALSE, v |-> "not_specified"]

\* lines 365-385
get_pass_event(row, pitch_dimensions, home_team_id) ==
    LET o == PassOutcome(row.outcome)
    IN  [raises |-> o.raises,
         base |-> BaseFields(row, pitch_dimensions, home_team_id),
         player_id |-> row.player_id,
         outcome |-> o.v,
         end_x |-> row.end_x,
         end_y |-> row.end_y,
         pass_type |-> "not_specified",
         set_piece |-> "unspecified_set_piece"]

\* lines 402-419
get_dribble_event(row, pitch_dimensions, home_team_id) ==
    LET d == DribbleEvent(BaseFields(row, pitch_dimensions, home_team_id),
                          [player_id |-> PyInt(row.player_id),
                           related_event_id |-> PyInt(MISSING_INT),
                           duel_type |-> PyNone,
                           outcome |-> PyBoolVal(PyBool(row.outcome)),
                           has_opponent |-> PyBoolVal(FALSE)])
    IN  [raises |-> d.state # "object", base |-> d.base, fields |-> d.fields]

\* the rows event_data[mask]
Masked(ed, category) == {n \in 1..Len(ed.event_id) : ed.databallpy_event[n] = category}

\* the keys of {e.event_id: e for e in rows.apply(builder)}
EventIds(ed, rows) == {ed.event_id[n] : n \in rows}

\* the row whose event is kept under id: a later row replaces an earlier one
KeptRow(ed, rows, id) ==
    Row(ed, CHOOSE n \in rows :
        /\ ed.event_id[n] = id
        /\ \A m \in rows : ed.event_id[m] = id => m <= n)

ShotBuilt(ed, md) ==
    [id \in EventIds(ed, Masked(ed, "shot")) |->
        get_shot_event(KeptRow(ed, Masked(ed, "shot"), id),
                       md.pitch_dimensions, md.home_team_id)]

PassBuilt(ed, md) ==
    [id \in EventIds(ed, Masked(ed, "pass")) |->
        get_pass_event(KeptRow(ed, Masked(ed, "pass"), id),
                       md.pitch_dimensions, md.home_team_id)]

DribbleBuilt(ed, md) ==
    [id \in EventIds(ed, Masked(ed, "dribble")) |->
        get_dribble_event(KeptRow(ed, Masked(ed, "dribble"), id),
                          md.pitch_dimensions, md.home_team_id)]

\* some builder of the map raised
AnyRaises(map) == \E id \in DOMAIN map : map[id].raises

(***************************************************************************)
(* State machine of load_metrica_event_data                                *)
(***************************************************************************)
NoArgs ==
    [player_id |-> PyNone, related_event_id |-> PyNone, duel_type |-> PyNone,
     outcome |-> PyNone, has_opponent |-> PyNone]

\* valid base arguments of an event
ValidBase ==
    [event_id |-> 1, period_id |-> 1, minutes |-> 0, seconds |-> 45, datetime |-> 45000,
     start_x |-> 0, start_y |-> 0, team_id |-> "FIFATMA", pitch_size |-> <<106, 68>>,
     team_side |-> "home", xt |-> -1]

NoResult == [state |-> "none", base |-> ValidBase, fields |-> NoArgs]

NoCall ==
    /\ ctor_args = NoArgs
    /\ ctor_result = NoResult

Fresh ==
    /\ raised = "none"
    /\ metadata = NoMetadata
    /\ events = <<>>
    /\ result_dict = EmptyResultDict
    /\ check_outcome_last_event = FALSE
    /\ event_data = EmptyResultDict
    /\ metrica_map = metrica_databallpy_map
    /\ shot_events = <<>>
    /\ pass_events = <<>>
    /\ dribble_events = <<>>

Init ==
    /\ event_data_loc \in EventDataLocs
    /\ metadata_loc \in MetadataLocs
    /\ pc = "check"
    /\ Fresh
    /\ NoCall

\* lines 52-73
CheckInputs ==
    /\ pc = "check"
    /\ IF CheckLocs(event_data_loc, metadata_loc) = "ok"
       THEN pc' = "metadata" /\ raised' = raised
       ELSE pc' = "raised" /\ raised' = CheckLocs(event_data_loc, metadata_loc)
    /\ UNCHANGED <<event_data_loc, metadata_loc, metadata, events, result_dict,
                   check_outcome_last_event, event_data, metrica_map, shot_events,
                   pass_events, dribble_events, ctor_args, ctor_result>>

\* lines 75-80
LoadMetadata ==
    /\ pc = "metadata"
    /\ IF get_metadata(metadata_loc).loaded
       THEN pc' = "read" /\ raised' = raised /\ metadata' = get_metadata(metadata_loc)
       ELSE pc' = "raised" /\ raised' = "MetadataError" /\ metadata' = metadata
    /\ UNCHANGED <<event_data_loc, metadata_loc, events, result_dict,
                   check_outcome_last_event, event_data, metrica_map, shot_events,
                   pass_events, dribble_events, ctor_args, ctor_result>>

\* lines 81, 153-188: the file or the text is decoded, the column lists are empty
ReadEvents ==
    /\ pc = "read"
    /\ \E n \in 0..MaxLen : \E cs \in [1..n -> Choices] : events' = Stream(cs)
    /\ result_dict' = EmptyResultDict
    /\ check_outcome_last_event' = FALSE
    /\ pc' = "loop"
    /\ UNCHANGED <<event_data_loc, metadata_loc, raised, metadata, event_data,
                   metrica_map, shot_events, pass_events, dribble_events, ctor_args,
                   ctor_result>>

\* the number of records processed
Processed == Len(result_dict.event_id)

\* lines 190-245: the next record of the stream
LoopStep ==
    /\ pc = "loop"
    /\ Processed < Len(events)
    /\ LET st == ProcessEvent(result_dict, check_outcome_last_event, events[Processed + 1])
       IN  /\ result_dict' = st.rd
           /\ check_outcome_last_event' = st.flag
    /\ UNCHANGED <<event_data_loc, metadata_loc, pc, raised, metadata, events, event_data,
                   metrica_map, shot_events, pass_events, dribble_events, ctor_args,
                   ctor_result>>

\* lines 247-252: the loop is over, the DataFrame is returned
Finalize ==
    /\ pc = "loop"
    /\ Processed = Len(events)
    /\ event_data' = ToDataFrame(result_dict, metrica_map)
    /\ pc' = "rescale"
    /\ UNCHANGED <<event_data_loc, metadata_loc, raised, metadata, events, result_dict,
                   check_outcome_last_event, metrica_map, shot_events, pass_events,
                   dribble_events, ctor_args, ctor_result>>

\* lines 84-94
Rescale ==
    /\ pc = "rescale"
    /\ event_data' = Rescaled(event_data, metadata)
    /\ pc' = "datetime"
    /\ UNCHANGED <<event_data_loc, metadata_loc, raised, metadata, events, result_dict,
                   check_outcome_last_event, metrica_map, shot_events, pass_events,
                   dribble_events, ctor_args, ctor_result>>

\* lines 96-112
AddDatetime ==
    /\ pc = "datetime"
    /\ event_data' = WithDatetime(event_data, metadata)
    /\ pc' = "normalize"
    /\ UNCHANGED <<event_data_loc, metadata_loc, raised, metadata, events, result_dict,
                   check_outcome_last_event, metrica_map, shot_events, pass_events,
                   dribble_events, ctor_args, ctor_result>>

\* lines 114-116
NormalizeDirection ==
    /\ pc = "normalize"
    /\ \E flip \in BOOLEAN : event_data' = Mirrored(event_data, flip)
    /\ pc' = "shots"
    /\ UNCHANGED <<event_data_loc, metadata_loc, raised, metadata, events, result_dict,
                   check_outcome_last_event, metrica_map, shot_events, pass_events,
                   dribble_events, ctor_args, ctor_result>>

\* lines 268-281
BuildShots ==
    /\ pc = "shots"
    /\ IF AnyRaises(ShotBuilt(event_data, metadata))
       THEN pc' = "raised" /\ raised' = "IndexError" /\ shot_events' = shot_events
       ELSE pc' = "passes" /\ raised' = raised
            /\ shot_events' = ShotBuilt(event_data, metadata)
    /\ UNCHANGED <<event_data_loc, metadata_loc, metadata, events, result_dict,
                   check_outcome_last_event, event_data, metrica_map, pass_events,
                   dribble_events, ctor_args, ctor_result>>

\* lines 283-292
BuildPasses ==
    /\ pc = "passes"
    /\ IF AnyRaises(PassBuilt(event_data, metadata))
       THEN pc' = "raised" /\ raised' = "IndexError" /\ pass_events' = pass_events
       ELSE pc' = "dribbles" /\ raised' = raised
            /\ pass_events' = PassBuilt(event_data, metadata)
    /\ UNCHANGED <<event_data_loc, metadata_loc, metadata, events, result_dict,
                   check_outcome_last_event, event_data, metrica_map, shot_events,
                   dribble_events, ctor_args, ctor_result>>

\* lines 294-310
BuildDribbles ==
    /\ pc = "dribbles"
    /\ IF AnyRaises(DribbleBuilt(event_data, metadata))
       THEN pc' = "raised" /\ raised' = "TypeError" /\ dribble_events' = dribble_events
       ELSE pc' = "return" /\ raised' = raised
            /\ dribble_events' = DribbleBuilt(event_data, metadata)
    /\ UNCHANGED <<event_data_loc, metadata_loc, metadata, events, result_dict,
                   check_outcome_last_event, event_data, metrica_map, shot_events,
                   pass_events, ctor_args, ctor_result>>

\* lines 120-121
Return ==
    /\ pc = "return"
    /\ pc' = "done"
    /\ UNCHANGED <<event_data_loc, metadata_loc, raised, metadata, events, result_dict,
                   check_outcome_last_event, event_data, metrica_map, shot_events,
                   pass_events, dribble_events, ctor_args, ctor_result>>

Next ==
    \/ CheckInputs
    \/ LoadMetadata
    \/ ReadEvents
    \/ LoopStep
    \/ Finalize
    \/ Rescale
    \/ AddDatetime
    \/ NormalizeDirection
    \/ BuildShots
    \/ BuildPasses
    \/ BuildDribbles
    \/ Return

Spec == Init /\ [][Next]_vars

(***************************************************************************)
(* The rescaling alone, on one-record tables with every grid coordinate    *)
(***************************************************************************)
PitchLengths == {100, 105, 106}

PitchWidths == {64, 68}

\* the vendor's values k / Den in [0, 1], in fixed point
UnitValues == {2 * k : k \in 0..Den}

RescaleChoices ==
    {[name |-> "PASS", team |-> "FIFATMA", subtypes |-> NoSubtypes],
     [name |-> "CHALLENGE", team |-> "FIFATMB", subtypes |-> NoSubtypes]}

InitRescale ==
    /\ event_data_loc = StrLoc(<<"e">>)
    /\ metadata_loc = StrLoc(<<"x">>)
    /\ pc = "rescale"
    /\ raised = "none"
    /\ \E l \in PitchLengths, w \in PitchWidths : metadata = MetadataOf(l, w)
    /\ \E c \in RescaleChoices, sx \in UnitValues, sy \in UnitValues,
          ex \in UnitValues, ey \in UnitValues :
            events = <<MkEvent(1, c, sx, sy, ex, ey)>>
    /\ result_dict = ParseFrom([rd |-> EmptyResultDict, flag |-> FALSE], events, 1).rd
    /\ check_outcome_last_event =
            ParseFrom([rd |-> EmptyResultDict, flag |-> FALSE], events, 1).flag
    /\ metrica_map = metrica_databallpy_map
    /\ event_data = GetEventData(events, metrica_map)
    /\ shot_events = <<>>
    /\ pass_events = <<>>
    /\ dribble_events = <<>>
    /\ NoCall

NextRescale == Rescale

SpecRescale == InitRescale /\ [][NextRescale]_vars

(***************************************************************************)
(* The DribbleEvent constructor alone, on arguments of every type          *)
(***************************************************************************)
TypedSamples == {PyInt(7), PyStr("x"), PyBoolVal(TRUE), PyFloat(1), PyNone}

InitDribble ==
    /\ event_data_loc = StrLoc(<<"e">>)
    /\ metadata_loc = StrLoc(<<"x">>)
    /\ pc = "ctor"
    /\ Fresh
    /\ ctor_args \in [player_id : TypedSamples, related_event_id : TypedSamples,
                      duel_type : TypedSamples, outcome : TypedSamples,
                      has_opponent : TypedSamples]
    /\ ctor_result = NoResult

\* DribbleEvent(**ValidBase, **ctor_args)
ConstructDribble ==
    /\ pc = "ctor"
    /\ ctor_result' = DribbleEvent(ValidBase, ctor_args)
    /\ pc' = "ctor_done"
    /\ UNCHANGED <<event_data_loc, metadata_loc, raised, metadata, events, result_dict,
                   check_outcome_last_event, event_data, metrica_map, shot_events,
                   pass_events, dribble_events, ctor_args>>

NextDribble == ConstructDribble

SpecDribble == InitDribble /\ [][NextDribble]_vars

(***************************************************************************)
(* Claims                                                                  *)
(***************************************************************************)
\* the tables a row can be read from: the column lists and the DataFrame
Rows(T) == 1..Len(T.outcome)

\* the record after row n of T makes row n unsuccessful
FollowedByLoss(T, n) ==
    \/ /\ T.metrica_event[n + 1] \in {"fault received", "ball out", "ball lost"}
       /\ T.team_id[n + 1] = T.team_id[n]
    \/ /\ T.metrica_event[n + 1] \in {"pass", "carry", "recovery", "shot"}
       /\ T.team_id[n + 1] # T.team_id[n]

C1_On(T) ==
    \A n \in Rows(T) :
        (T.metrica_event[n] \in {"pass", "carry"} /\ n + 1 \in Rows(T))
            => T.outcome[n] = IF FollowedByLoss(T, n) THEN 0 ELSE 1

\* C1: every pass or carry row that has a successor holds outcome 0 when the
\* next record is an out-of-possession event of the same team or an
\* in-possession event of the other team, and 1 in every other case
C1_PassCarryOutcome == C1_On(result_dict) /\ C1_On(event_data)

\* a pass followed by its own team's carry, and that carry followed by the
\* other team's shot, in the returned table
C1_Witness ==
    /\ pc = "done"
    /\ Len(event_data.outcome) = 3
    /\ event_data.metrica_event = <<"pass", "carry", "shot">>
    /\ event_data.team_id[2] # event_data.team_id[3]
    /\ event_data.team_id[1] = event_data.team_id[2]
    /\ event_data.outcome[1] = 1
    /\ event_data.outcome[2] = 0

\* the sub-types of record n name a goal
HasGoal(n) == "GOAL" \in Range(events[n].subtypes.names)

C2_On(T) ==
    \A n \in Rows(T) :
        T.metrica_event[n] = "shot" => T.outcome[n] = IF HasGoal(n) THEN 1 ELSE 0

ShotsBuilt == pc \in {"passes", "dribbles", "return", "done"} \/ raised = "IndexError"

\* C2: a shot row holds outcome 1 exactly when its sub-types name GOAL, at
\* every later point of the run, and its ShotEvent says goal for 1, miss for 0
C2_ShotOutcome ==
    /\ C2_On(result_dict)
    /\ C2_On(event_data)
    /\ ShotsBuilt =>
        \A n \in Rows(event_data) :
            event_data.metrica_event[n] = "shot" =>
                /\ event_data.event_id[n] \in DOMAIN shot_events
                /\ shot_events[event_data.event_id[n]].shot_outcome =
                        IF event_data.outcome[n] = 1 THEN "goal" ELSE "miss"

\* a goal in a list of sub-types, followed by two more records, and a miss
C2_Witness ==
    /\ pc = "done"
    /\ Len(events) = 3
    /\ events[1].type.name = "SHOT"
    /\ events[1].subtypes = [isList |-> TRUE, names |-> <<"ON TARGET", "GOAL">>]
    /\ events[3].type.name = "SHOT"
    /\ ~HasGoal(3)
    /\ shot_events[1].shot_outcome = "goal"
    /\ shot_events[3].shot_outcome = "miss"

\* the fixed table of the specification
CanonicalCategory(name) ==
    CASE name = "pass" -> "pass"
      [] name = "carry" -> "dribble"
      [] name = "shot" -> "shot"
      [] OTHER -> None

\* C3: the databallpy_event of a row is the table's entry for the lower-cased
\* vendor name, null for every other name, and the table is never modified
C3_CanonicalEvent ==
    /\ metrica_map = [pass |-> "pass", carry |-> "dribble", shot |-> "shot"]
    /\ Len(event_data.databallpy_event) = Len(event_data.event_id)
    /\ \A n \in 1..Len(event_data.databallpy_event) :
        event_data.databallpy_event[n] = CanonicalCategory(PyLower(events[n].type.name))

\* a returned table with a dribble, a shot and an unmapped row
C3_Witness ==
    /\ pc = "done"
    /\ Len(events) = 3
    /\ events[1].type.name = "Carry"
    /\ events[2].type.name = "CHALLENGE"
    /\ events[3].type.name = "SHOT"
    /\ event_data.databallpy_event = <<"dribble", None, "shot">>

\* the columns rescaled by the pitch length and by the pitch width
C4_Dimension(c, md) ==
    CASE c \in {"start_x", "end_x"} -> md.pitch_dimensions[1]
      [] c \in {"start_y", "end_y"} -> md.pitch_dimensions[2]
      [] OTHER -> 0

\* C4: after the rescaling, start_x and end_x are value * pitch_length -
\* pitch_length / 2, start_y and end_y the same with pitch_width, every other
\* column is as parsed; the result lies in [-dimension / 2, dimension / 2] and
\* (result + dimension / 2) / dimension is the vendor's value
C4_Rescaling ==
    pc = "datetime" =>
        \A c \in DOMAIN event_data : \A n \in 1..Len(event_data[c]) :
            LET dim == C4_Dimension(c, metadata)
                v == event_data[c][n]
                half == (Scale * dim) \div 2
            IN  IF dim # 0
                THEN /\ v = result_dict[c][n] * dim - half
                     /\ 0 - half <= v /\ v <= half
                     /\ (v + half) % dim = 0
                     /\ (v + half) \div dim = result_dict[c][n]
                ELSE IF c = "databallpy_event"
                THEN v = CanonicalCategory(result_dict.metrica_event[n])
                ELSE v = result_dict[c][n]

\* 1 / Den and 1 on a 105 x 68 pitch
C4_Witness ==
    /\ pc = "datetime"
    /\ metadata.pitch_dimensions = <<105, 68>>
    /\ result_dict.start_x = <<2>>
    /\ result_dict.end_y = <<Scale>>
    /\ event_data.start_x = <<2 * 105 - Den * 105>>
    /\ event_data.end_y = <<Den * 68>>
    /\ event_data.period_id = <<1>>

\* the map _get_databallpy_events keeps for a category
C5_MapOf(category) ==
    CASE category = "shot" -> shot_events
      [] category = "pass" -> pass_events
      [] OTHER -> dribble_events

C5_PlayerOf(category, obj) ==
    IF category = "dribble" THEN obj.fields.player_id.i ELSE obj.player_id

C5_RowInMaps(n) ==
    LET cat == event_data.databallpy_event[n]
        id == event_data.event_id[n]
    IN  /\ \A other \in {"shot", "pass", "dribble"} \ {cat} : id \notin DOMAIN C5_MapOf(other)
        /\ cat # None =>
            /\ id \in DOMAIN C5_MapOf(cat)
            /\ LET obj == C5_MapOf(cat)[id]
               IN  /\ obj.base.event_id = id
                   /\ obj.base.period_id = event_data.period_id[n]
                   /\ obj.base.minutes = event_data.minutes[n]
                   /\ obj.base.seconds = event_data.seconds[n]
                   /\ obj.base.datetime = event_data.datetime[n]
                   /\ obj.base.start_x = event_data.start_x[n]
                   /\ obj.base.start_y = event_data.start_y[n]
                   /\ obj.base.team_id = event_data.team_id[n]
                   /\ C5_PlayerOf(cat, obj) = event_data.player_id[n]
                   /\ obj.base.team_side = "home" <=>
                        event_data.team_id[n] = metadata.home_team_id
                   /\ obj.base.team_side \in {"home", "away"}

\* _get_databallpy_events has ended, by returning or by raising
C5_BuildEnded == pc \in {"return", "done"} \/ (pc = "raised" /\ raised = "IndexError")

\* C5: once _get_databallpy_events has ended, every shot, pass and dribble row
\* is in the map of exactly its category with the row's values, team_side home
\* exactly for the home team, and the other rows are in no map
C5_RowsBecomeEvents == C5_BuildEnded => \A n \in Rows(event_data) : C5_RowInMaps(n)

\* what holds of C5: the same, of the calls that return
C5_WhenReturned == pc \in {"return", "done"} => \A n \in Rows(event_data) : C5_RowInMaps(n)

C6_NotStr(loc) == loc.t # "str"

\* a str that is a path, not the data itself
C6_IsPath(loc) == loc.t = "str" /\ ~Contains(<<"{">>, loc.chars)

\* a path that names no file
C6_Missing(loc) == C6_IsPath(loc) /\ loc.chars \notin Files

\* metadata_loc is read as a file name when event_data_loc is one
C6_Invalid ==
    \/ C6_NotStr(event_data_loc) \/ C6_NotStr(metadata_loc)
    \/ C6_Missing(event_data_loc)
    \/ C6_IsPath(event_data_loc) /\ C6_Missing(metadata_loc)

C6_Expected ==
    (IF C6_NotStr(event_data_loc) \/ C6_NotStr(metadata_loc) THEN {"TypeError"} ELSE {})
    \cup (IF C6_Missing(event_data_loc) \/ (C6_IsPath(event_data_loc) /\ C6_Missing(metadata_loc))
          THEN {"FileNotFoundError"} ELSE {})

\* C6: with an argument that is not a str or names a missing file, the call
\* never gets past the checks: it raises TypeError or FileNotFoundError there,
\* with no metadata loaded, no record parsed and nothing returned
C6_FailFast ==
    C6_Invalid =>
        /\ pc \in {"check", "raised"}
        /\ pc = "raised" => raised \in C6_Expected
        /\ ~metadata.loaded
        /\ events = <<>>
        /\ event_data = EmptyResultDict

\* the documented type of each argument of DribbleEvent
C7_Documented ==
    [player_id |-> "int", related_event_id |-> "int", duel_type |-> "str",
     outcome |-> "bool", has_opponent |-> "bool"]

C7_WellTyped(a) == \A f \in DOMAIN C7_Documented : IsInstance(a[f], {C7_Documented[f]})

\* C7: a DribbleEvent exists only with arguments of the documented types, and
\* the construction raises TypeError for the others
C7_TypeChecked ==
    /\ ctor_result.state = "object" => C7_WellTyped(ctor_result.fields)
    /\ (pc = "ctor_done" /\ ~C7_WellTyped(ctor_args)) => ctor_result.state = "TypeError"

C8_On(T) ==
    \A n \in Rows(T) :
        T.metrica_event[n] \in {"pass", "carry"} =>
            IF n = Len(T.outcome) THEN T.outcome[n] = MISSING_INT ELSE T.outcome[n] \in {0, 1}

\* C8: after any prefix of the stream the flag is true exactly when the last
\* processed record is a pass or carry; that row holds MISSING_INT and every
\* earlier pass or carry row holds 0 or 1, so a pending row is resolved by the
\* next record, and the returned table keeps the sentinel of a pending last row
C8_OnePending ==
    /\ check_outcome_last_event <=>
        (Processed > 0 /\ result_dict.metrica_event[Processed] \in {"pass", "carry"})
    /\ C8_On(result_dict)
    /\ C8_On(event_data)

\* a stream that ends on a pending carry, after a resolved pass, is returned
C8_Witness ==
    /\ pc = "done"
    /\ check_outcome_last_event
    /\ event_data.metrica_event = <<"shot", "pass", "carry">>
    /\ event_data.outcome[2] = 0
    /\ event_data.outcome[3] = MISSING_INT

\* the column lists other than databallpy_event
C9_Filled == Range(Columns) \ {"databallpy_event"}

\* the effect of processing record k on the column lists
C9_Step ==
    (pc = "loop" /\ result_dict' # result_dict) =>
        LET k == Processed + 1
        IN  /\ \A c \in C9_Filled :
                /\ Len(result_dict'[c]) = k
                /\ c # "outcome" => SubSeq(result_dict'[c], 1, k - 1) = result_dict[c]
            /\ result_dict'.event_id[k] = events[k].index
            /\ result_dict'.metrica_event[k] = PyLower(events[k].type.name)
            /\ result_dict'.team_id[k] = events[k].team.id
            /\ result_dict'.td_frame[k] = events[k].start.frame
            /\ \A n \in 1..(k - 1) :
                result_dict'.outcome[n] # result_dict.outcome[n] =>
                    /\ n = k - 1
                    /\ result_dict.metrica_event[n] \in {"pass", "carry"}
                    /\ result_dict.outcome[n] = MISSING_INT
                    /\ result_dict'.outcome[n] =
                            IF FollowedByLoss(result_dict', n) THEN 0 ELSE 1

\* every column list is as long as every other
C9_EqualLength ==
    \A c \in DOMAIN result_dict, d \in DOMAIN result_dict :
        Len(result_dict[c]) = Len(result_dict[d])

\* C9 as stated: the k-th record appends one row, all column lists stay of
\* equal length, and only the outcome of a pass or carry row k-1 is overwritten
C9_AsStated == [](pc = "loop" => C9_EqualLength) /\ [][C9_Step]_vars

\* C9, amended: the k-th record appends one entry to every column list but
\* databallpy_event, which stays empty during the loop; only the outcome of row
\* k-1 can be overwritten, from its own team id, when it is a pending pass or
\* carry; every other earlier field, and an outcome of 0 or 1, stays as it is
C9_NoOutOfOrder ==
    /\ [](pc = "loop" => result_dict.databallpy_event = <<>>)
    /\ [](\A c \in C9_Filled : Len(result_dict[c]) = Processed)
    /\ [][C9_Step]_vars

\* the third record resolved the pass of row 2 and left the carry of row 1
C9_Witness ==
    /\ pc = "loop"
    /\ Processed = 3
    /\ result_dict.metrica_event = <<"carry", "pass", "ball lost">>
    /\ result_dict.team_id[2] = result_dict.team_id[3]
    /\ result_dict.team_id[1] # result_dict.team_id[2]
    /\ result_dict.outcome = <<0, 0, MISSING_INT>>

\* the PassEvents have been built, or building them raised
C10_PassesEnded == pc \in {"dribbles", "return", "done"} \/ (pc = "raised" /\ raised = "IndexError")

C10_Expected(outcome) ==
    CASE outcome = 0 -> "unsuccessful"
      [] outcome = 1 -> "successful"
      [] OTHER -> "not_specified"

\* C10: _get_databallpy_events does not raise on a table of _get_event_data,
\* and a PassEvent is unsuccessful for 0, successful for 1 and not_specified
\* for the unresolved pass that ends the stream
C10_PassOutcome ==
    C10_PassesEnded =>
        /\ raised = "none"
        /\ \A n \in Rows(event_data) :
            event_data.databallpy_event[n] = "pass" =>
                /\ event_data.event_id[n] \in DOMAIN pass_events
                /\ pass_events[event_data.event_id[n]].outcome =
                        C10_Expected(event_data.outcome[n])

\* the DribbleEvents have been built
C11_DribblesBuilt == pc \in {"return", "done"}

\* the DribbleEvent of dribble row n says successful
C11_Successful(n) ==
    LET outcome == dribble_events[event_data.event_id[n]].fields.outcome
    IN  outcome.t = "bool" /\ outcome.b

\* C11: the DribbleEvent of a dribble row has outcome True exactly when the
\* row's outcome is 1, so False for 0, and a carry that was never resolved is
\* not reported as a successful dribble
C11_DribbleOutcome ==
    C11_DribblesBuilt =>
        \A n \in Rows(event_data) :
            event_data.databallpy_event[n] = "dribble" =>
                /\ event_data.event_id[n] \in DOMAIN dribble_events
                /\ C11_Successful(n) <=> event_data.outcome[n] = 1

\* what holds of C11: the same, of the carries the next record resolved
C11_ResolvedDribbles ==
    C11_DribblesBuilt =>
        \A n \in Rows(event_data) :
            (event_data.databallpy_event[n] = "dribble" /\ event_data.outcome[n] \in {0, 1}) =>
                /\ event_data.event_id[n] \in DOMAIN dribble_events
                /\ C11_Successful(n) <=> event_data.outcome[n] = 1

====
